---------------------------- MODULE Spec2Model ----------------------------
(***************************************************************************)
(* Model of reaper/reaper.py, the cache reaper of the Forgejo pages        *)
(* server: CacheReaper.scan_and_clean and the helpers it calls, and the    *)
(* part of main() that runs it and turns its result into an exit status.   *)
(*                                                                         *)
(* A Python str is the sequence of its pieces, so that keys are built,     *)
(* compared, split and sanitized piece by piece as the code does.  A piece *)
(* is one character, except that each word the source writes as a literal  *)
(* ("custom_domain", "traefik/http/routers/custom-", "/rule", ...) is one  *)
(* piece wherever it occurs; two strs are equal exactly when their         *)
(* sequences are.  Optional[T] is << >> for None and a value otherwise.    *)
(***************************************************************************)
EXTENDS Integers, Sequences, FiniteSets, TLC

----------------------------------------------------------------------------
(* Bounds of the model *)

\* the most mappings the store holds when the run begins
MaxMappings == 2

\* the most SCAN round trips the store takes to finish one iteration
MaxScans == 2

\* the most DELETE calls of one run that fail with a RedisError
MaxDeleteErrors == 1

\* the longest str a helper called alone is given, the examples aside
MaxLen == 3

\* the most writes of the provisioning process during one run
MaxWrites == 1

----------------------------------------------------------------------------
(* String literals of the source *)

\* "custom_domain:" (the scan pattern's prefix and the forward key's)
CUSTOM_DOMAIN == <<"custom_domain", ":">>

\* "traefik/http/routers/custom-"
ROUTER_PREFIX == <<"traefik/http/routers/custom-">>

\* the six router key suffixes, in the order of the list traefik_keys
ROUTER_SUFFIXES == <<
    <<"/rule">>,
    <<"/entrypoints/0">>,
    <<"/service">>,
    <<"/tls/certresolver">>,
    <<"/middlewares/0">>,
    <<"/priority">> >>

\* None, and the test "x is not None" for a model Optional
None == << >>

\* the characters c with c.isalnum() among the one-character pieces
Alnum == {"a", "b", "c", "d", "e", "f", "g", "h", "i", "j", "k", "l", "m",
          "n", "o", "p", "q", "r", "s", "t", "u", "v", "w", "x", "y", "z",
          "A", "B", "C", "X", "Y", "Z",
          "0", "1", "2", "3", "4", "5", "6", "7", "8", "9"}

----------------------------------------------------------------------------
(* Pure helpers of CacheReaper *)

Range(s) == {s[i] : i \in 1..Len(s)}

\* str.replace(old, new) for one-character old and new
Replace(s, old, new) == [i \in 1..Len(s) |-> IF s[i] = old THEN new ELSE s[i]]

\* value.rsplit(":", 1) in the place of value.split(":", 1): the split is at
\* the last ":"
SplitOnce_at_last(value) ==
    IF \E i \in 1..Len(value) : value[i] = ":"
    THEN LET i == CHOOSE n \in 1..Len(value) :
                     /\ value[n] = ":"
                     /\ \A j \in (n+1)..Len(value) : value[j] # ":"
         IN  <<SubSeq(value, 1, i-1), SubSeq(value, i+1, Len(value))>>
    ELSE <<value>>

\* value.split(":", 1): at most one split, at the first ":"
SplitOnce(value) ==
    IF \E i \in 1..Len(value) : value[i] = ":"
    THEN LET i == CHOOSE n \in 1..Len(value) :
                     /\ value[n] = ":"
                     /\ \A j \in 1..(n-1) : value[j] # ":"
         IN  <<SubSeq(value, 1, i-1), SubSeq(value, i+1, Len(value))>>
    ELSE <<value>>

\* parse_repo_mapping with the check "len(parts) == 2" lost: a value without
\* ":" comes back as (value, "")
parse_repo_mapping_unchecked(value) ==
    LET parts == SplitOnce(value)
    IN  IF Len(parts) = 2 THEN <<parts[1], parts[2]>> ELSE <<parts[1], << >> >>

\* CacheReaper.parse_repo_mapping: (username, repository) or None
parse_repo_mapping(value) ==
    LET parts == SplitOnce(value)
    IN  IF Len(parts) = 2 THEN <<parts[1], parts[2]>> ELSE None

\* sanitize_domain_name with "_" as the replacement of its second pass
sanitize_domain_name_underscore(domain) ==
    LET sanitized == Replace(Replace(domain, ".", "-"), "_", "-")
    IN  [i \in 1..Len(sanitized) |->
            IF sanitized[i] \in Alnum \/ sanitized[i] = "-"
            THEN sanitized[i] ELSE "_"]

\* CacheReaper.sanitize_domain_name
sanitize_domain_name(domain) ==
    LET sanitized == Replace(Replace(domain, ".", "-"), "_", "-")
    IN  [i \in 1..Len(sanitized) |->
            IF sanitized[i] \in Alnum \/ sanitized[i] = "-"
            THEN sanitized[i] ELSE "-"]

\* the list traefik_keys of delete_domain_mappings
traefik_keys(sanitized_domain) ==
    [i \in 1..Len(ROUTER_SUFFIXES) |->
        ROUTER_PREFIX \o sanitized_domain \o ROUTER_SUFFIXES[i]]

\* keys_to_delete with the router keys built from the domain as it is
KeysToDelete_unsanitized(domain, username, repository) ==
    <<CUSTOM_DOMAIN \o domain, username \o <<":">> \o repository>>
        \o traefik_keys(domain)

\* the list keys_to_delete of delete_domain_mappings: forward key, reverse
\* key, then the router keys
KeysToDelete(domain, username, repository) ==
    <<CUSTOM_DOMAIN \o domain, username \o <<":">> \o repository>>
        \o traefik_keys(sanitize_domain_name(domain))

\* what session.get(url, timeout=10) did: a response with a status code, or
\* a raised requests.RequestException (transport failure, timeout)
Response(code) == [raised |-> FALSE, status_code |-> code]
RequestException == [raised |-> TRUE, status_code |-> 0]

\* CacheReaper.has_pages_file, from what session.get did
has_pages_file(outcome) ==
    IF outcome.raised THEN TRUE ELSE outcome.status_code = 200

\* delete_domain_mappings with the test of self.dry_run lost
only_prints_never(dry) == FALSE

\* "if self.dry_run:" in delete_domain_mappings: the keys are only printed
only_prints(dry) == dry

\* Python truth of an Optional[str] (None and "" are false)
Truthy(opt) == opt # None /\ opt[1] # << >>

----------------------------------------------------------------------------
(* The store, as the client calls see it *)

\* redis_client.get(key): the value, or None
redis_get(st, k) == IF k \in DOMAIN st THEN <<st[k]>> ELSE None

\* the store after redis_client.delete(key)
redis_delete(st, k) == [x \in DOMAIN st \ {k} |-> st[x]]

\* match="custom_domain:*"
Matches(k) == Len(k) >= Len(CUSTOM_DOMAIN) /\ SubSeq(k, 1, Len(CUSTOM_DOMAIN)) = CUSTOM_DOMAIN

\* key[len("custom_domain:"):], the domain of forward key k
DomainOf(k) == SubSeq(k, Len(CUSTOM_DOMAIN) + 1, Len(k))

\* every sequence that lists the elements of a subset of S once each
Listings(S) ==
    UNION { {p \in [1..Cardinality(T) -> T] : Range(p) = T} : T \in SUBSET S }

----------------------------------------------------------------------------
(* The stores and the Forgejo answers the model runs on *)

\* custom domains: two that differ only in "." and "_", and one more
Domains == { <<"a", ".", "b">>, <<"a", "_", "b">>, <<"x">> }

\* values of a forward entry: empty, without ":", "o:r", and a mapping whose
\* owner is named custom_domain ("custom_domain:x")
Values == { << >>, <<"a", "b">>, <<"o", ":", "r">>,
            <<"custom_domain", ":", "x">> }

\* the value of a routing entry (never read by the reaper)
OPAQUE == <<"1">>

\* The store the provisioning side leaves for the mappings m (domain ->
\* value): the forward entry of each, and for each value of the form
\* owner:repository the reverse entry (owner:repository -> domain) and the
\* six routing entries.  Where two entries have the same key the forward
\* entry is the one found.
ProvisionedStore(m) ==
    LET live == {d \in DOMAIN m : parse_repo_mapping(m[d]) # None}
        fwd  == {CUSTOM_DOMAIN \o d : d \in DOMAIN m}
        rev  == {m[d] : d \in live}
        rout == UNION {Range(traefik_keys(sanitize_domain_name(d))) : d \in live}
    IN  [k \in fwd \cup rev \cup rout |->
            IF k \in fwd THEN m[DomainOf(k)]
            ELSE IF k \in rev THEN CHOOSE d \in live : m[d] = k
            ELSE OPAQUE]

\* the forward keys the stores of the model can hold
ForwardKeys == {CUSTOM_DOMAIN \o d : d \in Domains}

\* The answers Forgejo can give for username/repository.  known holds the
\* pairs <<repo, has>> already answered with a 200 (has) or a 404 (~has) in
\* this run, and the same repository is not answered the other way again; a
\* 500 stands for every status other than 200 and 404.
Answers(known, user, repo) ==
    {RequestException, Response(500)}
      \cup (IF <<<<user, repo>>, FALSE>> \in known THEN {} ELSE {Response(200)})
      \cup (IF <<<<user, repo>>, TRUE>> \in known THEN {} ELSE {Response(404)})

\* known, once username/repository was answered with outcome
Learn(known, user, repo, outcome) ==
    IF outcome.raised \/ outcome.status_code \notin {200, 404} THEN known
    ELSE known \cup {<<<<user, repo>>, outcome.status_code = 200>>}

----------------------------------------------------------------------------
(* State *)

VARIABLES
    store,            \* the Redis keyspace: key -> value
    dry_run,          \* self.dry_run
    pc,               \* where main() is: "ping", "scan", "for", "check",
                      \*   "delete", "summary", "done"
    cursor,           \* scan_and_clean: cursor
    keys,             \* scan_and_clean: keys, the page of the last SCAN
    idx,              \* position of the for loop in keys
    key,              \* scan_and_clean: key
    domain,           \* scan_and_clean: domain
    value,            \* scan_and_clean: value (Optional[str])
    username,         \* scan_and_clean: username
    repository,       \* scan_and_clean: repository
    total_domains,    \* scan_and_clean: total_domains
    cleaned_domains,  \* scan_and_clean: cleaned_domains
    error_count,      \* scan_and_clean: error_count
    keys_to_delete,   \* delete_domain_mappings: keys_to_delete
    di,               \* position of the delete loop in keys_to_delete
    deleted_count,    \* delete_domain_mappings: deleted_count
    summary,          \* None, or what print_summary printed: <<total, cleaned, errors>>
    exit_code,        \* None, or <<status>> of the process
    exception,        \* None, or <<the exception that ended the run>>
    \* the store's and Forgejo's side
    unreturned,       \* keys the running SCAN iteration has not returned yet
    scans,            \* SCAN calls answered
    delete_errors,    \* DELETE calls that raised
    truth,            \* <<repository, has>>: the 200 and 404 answers given
    \* history of the run
    store0,           \* the store when the run began
    visits,           \* forward key -> how often the for loop took it
    verdict,          \* <<forward key, outcome>>: what session.get did for it
    deleted,          \* keys a DELETE was issued on
    issued,           \* the DELETEs issued for the mapping at hand, in order
    skipped,          \* forward keys reported "(skipping)" (lines 159, 166)
    evicted,          \* forward keys counted in cleaned_domains (lines 175-177)
    retained,         \* forward keys reported "still has .pages file" (line 179)
    \* a dry run followed by a normal run on the same store (SpecPair)
    plan,             \* the pages SCAN returned in the dry run, in order
    first,            \* None, or the dry run that came before this run
    \* the provisioning process, writing to the store during the run (SpecRace)
    written,          \* its writes so far: where the run was, the keys written
    \* one call of a pure helper (SpecPure)
    arg,              \* the str the helper is called with
    ret               \* what the calls made so far returned, in order

vars == <<exception, store, dry_run, pc, cursor, keys, idx, key, domain, value, username,
          repository, total_domains, cleaned_domains, error_count,
          keys_to_delete, di, deleted_count, summary, exit_code, unreturned,
          scans, delete_errors, truth, store0, visits, verdict, deleted, issued,
          skipped, evicted, retained, plan, first, written, arg, ret>>

\* the variables of one mapping's handling
locals == <<key, domain, value, username, repository, keys_to_delete, di, deleted_count>>
counters == <<total_domains, cleaned_domains, error_count>>
outside == <<unreturned, scans, delete_errors, truth>>
history == <<visits, verdict, deleted, issued, skipped, evicted, retained>>
\* the variables the reaper's run never touches
apart == <<written, arg, ret>>

Init ==
    /\ \E D \in {X \in SUBSET Domains : Cardinality(X) <= MaxMappings} :
         \E m \in [D -> Values] : store = ProvisionedStore(m)
    /\ dry_run \in BOOLEAN
    /\ pc = "ping"
    /\ cursor = 0
    /\ keys = << >>
    /\ idx = 1
    /\ key = << >>
    /\ domain = << >>
    /\ value = None
    /\ username = << >>
    /\ repository = << >>
    /\ total_domains = 0
    /\ cleaned_domains = 0
    /\ error_count = 0
    /\ keys_to_delete = << >>
    /\ di = 1
    /\ deleted_count = 0
    /\ summary = None
    /\ exit_code = None
    /\ exception = None
    /\ unreturned = {}
    /\ scans = 0
    /\ delete_errors = 0
    /\ truth = {}
    /\ store0 = store
    /\ visits = [k \in ForwardKeys |-> 0]
    /\ verdict = {}
    /\ deleted = {}
    /\ issued = << >>
    /\ skipped = {}
    /\ evicted = {}
    /\ retained = {}
    /\ plan = << >>
    /\ first = None
    /\ written = << >>
    /\ arg = << >>
    /\ ret = << >>

----------------------------------------------------------------------------
(* main(): the connectivity probe *)

\* reaper.redis_client.ping() returns
Ping ==
    /\ pc = "ping"
    /\ pc' = "scan"
    /\ UNCHANGED <<exception, apart, store, dry_run, cursor, keys, idx, locals, counters,
                   summary, exit_code, outside, store0, plan, first, history>>

\* the probe's handler without its sys.exit(1): the failure is printed and
\* the run goes on
PingFails_goes_on ==
    /\ pc = "ping"
    /\ pc' = "scan"
    /\ exception' = <<"redis.ConnectionError">>
    /\ UNCHANGED <<apart, store, dry_run, cursor, keys, idx, locals, counters,
                   summary, exit_code, outside, store0, plan, first, history>>

\* reaper.redis_client.ping() raises redis.ConnectionError: sys.exit(1)
PingFails ==
    /\ pc = "ping"
    /\ pc' = "done"
    /\ exit_code' = <<1>>
    /\ exception' = <<"redis.ConnectionError">>
    /\ UNCHANGED <<apart, store, dry_run, cursor, keys, idx, locals, counters,
                   summary, outside, store0, plan, first, history>>

----------------------------------------------------------------------------
(* scan_and_clean *)

\* the keys a SCAN of this iteration can still return: at cursor 0 the
\* iteration starts over the matching keys, afterwards those not returned
\* yet; a key that is gone from the store is not returned
Candidates == {k \in (IF cursor = 0 THEN DOMAIN store ELSE unreturned) :
                  k \in DOMAIN store /\ Matches(k)}

\* cursor, keys = self.redis_client.scan(cursor=cursor, match=pattern,
\* count=100) returns page, with cursor 0 when last
ScanReturns(page, last) ==
    /\ pc = "scan"
    /\ keys' = page
    /\ cursor' = IF last THEN 0 ELSE scans + 1
    /\ unreturned' = Candidates \ Range(page)
    /\ scans' = scans + 1
    /\ idx' = 1
    /\ pc' = "for"
    /\ UNCHANGED <<exception, apart, store, dry_run, locals, counters, summary, exit_code,
                   delete_errors, truth, store0, first, history>>

\* what the store may answer a SCAN with: a page of the keys not returned
\* yet, in any order, and cursor 0 only with the last of them
MayReturn(page, last) ==
    /\ Range(page) \subseteq Candidates
    /\ last => Range(page) = Candidates
    /\ ~last => scans + 1 < MaxScans

\* the SCAN round trip at the top of "while True"
Scan ==
    /\ pc = "scan"
    /\ \E page \in Listings(Candidates) :
         \E last \in BOOLEAN :
            /\ MayReturn(page, last)
            /\ ScanReturns(page, last)
    /\ UNCHANGED plan

\* the body of the for loop with "total_domains += 1" moved below the two
\* skips: a skipped key is counted as an error and not as scanned
Get_counts_after_skips ==
    /\ pc = "for"
    /\ idx <= Len(keys)
    /\ key' = keys[idx]
    /\ domain' = DomainOf(key')
    /\ value' = redis_get(store, key')
    /\ visits' = [visits EXCEPT ![key'] = @ + 1]
    /\ LET repo_tuple == IF Truthy(value') THEN parse_repo_mapping(value'[1]) ELSE None
       IN  IF ~Truthy(value') \/ repo_tuple = None
           THEN /\ error_count' = error_count + 1
                /\ skipped' = skipped \cup {key'}
                /\ idx' = idx + 1
                /\ pc' = "for"
                /\ UNCHANGED <<username, repository, total_domains>>
           ELSE /\ username' = repo_tuple[1]
                /\ repository' = repo_tuple[2]
                /\ total_domains' = total_domains + 1
                /\ pc' = "check"
                /\ UNCHANGED <<error_count, idx, skipped>>
    /\ issued' = << >>
    /\ UNCHANGED <<exception, apart, store, dry_run, cursor, keys, cleaned_domains,
                   keys_to_delete, di, deleted_count, summary, exit_code,
                   outside, store0, plan, first, verdict, deleted, evicted, retained>>

\* the body of "for key in keys" up to the Forgejo call: count the key, strip
\* the prefix, GET the value, skip the key when the value is missing or does
\* not parse
Get ==
    /\ pc = "for"
    /\ idx <= Len(keys)
    /\ key' = keys[idx]
    /\ total_domains' = total_domains + 1
    /\ domain' = DomainOf(key')
    /\ value' = redis_get(store, key')
    /\ visits' = [visits EXCEPT ![key'] = @ + 1]
    /\ LET repo_tuple == IF Truthy(value') THEN parse_repo_mapping(value'[1]) ELSE None
       IN  IF ~Truthy(value') \/ repo_tuple = None
           THEN /\ error_count' = error_count + 1
                /\ skipped' = skipped \cup {key'}
                /\ idx' = idx + 1
                /\ pc' = "for"
                /\ UNCHANGED <<username, repository>>
           ELSE /\ username' = repo_tuple[1]
                /\ repository' = repo_tuple[2]
                /\ pc' = "check"
                /\ UNCHANGED <<error_count, idx, skipped>>
    /\ issued' = << >>
    /\ UNCHANGED <<exception, apart, store, dry_run, cursor, keys, cleaned_domains,
                   keys_to_delete, di, deleted_count, summary, exit_code,
                   outside, store0, plan, first, verdict, deleted, evicted, retained>>

\* "if not self.has_pages_file(username, repository)" when session.get did
\* outcome: the branch on it; with no .pages file delete_domain_mappings
\* builds keys_to_delete and, in a dry run, only prints it
CheckWith(outcome) ==
    /\ pc = "check"
    /\ verdict' = verdict \cup {<<key, outcome>>}
    /\ truth' = Learn(truth, username, repository, outcome)
    /\ IF ~has_pages_file(outcome)
       THEN /\ keys_to_delete' = KeysToDelete(domain, username, repository)
            /\ IF only_prints(dry_run)
               THEN /\ cleaned_domains' = cleaned_domains + 1
                    /\ evicted' = evicted \cup {key}
                    /\ idx' = idx + 1
                    /\ pc' = "for"
                    /\ UNCHANGED <<di, deleted_count>>
               ELSE /\ di' = 1
                    /\ deleted_count' = 0
                    /\ pc' = "delete"
                    /\ UNCHANGED <<cleaned_domains, evicted, idx>>
            /\ UNCHANGED retained
       ELSE /\ retained' = retained \cup {key}
            /\ idx' = idx + 1
            /\ pc' = "for"
            /\ UNCHANGED <<cleaned_domains, evicted, keys_to_delete, di,
                           deleted_count>>
    /\ UNCHANGED <<exception, apart, store, dry_run, cursor, keys, key, domain, value, username,
                   repository, total_domains, error_count, summary, exit_code,
                   unreturned, scans, delete_errors, store0, plan, first,
                   visits, deleted, issued, skipped>>

\* the Forgejo call with any answer Forgejo can give
Check == \E outcome \in Answers(truth, username, repository) : CheckWith(outcome)

\* after the last key of keys_to_delete: back in scan_and_clean,
\* cleaned_domains += 1 and the next key
AfterDelete(n) ==
    IF n = Len(keys_to_delete)
    THEN /\ cleaned_domains' = cleaned_domains + 1
         /\ evicted' = evicted \cup {key}
         /\ idx' = idx + 1
         /\ pc' = "for"
         /\ di' = n
    ELSE /\ di' = n + 1
         /\ UNCHANGED <<cleaned_domains, evicted, idx, pc>>

\* the delete loop sparing the keys written since the run began, as it would
\* under a lock or a compare-and-delete the code does not have
Delete_unless_written ==
    /\ pc = "delete"
    /\ LET k == keys_to_delete[di]
           fresh == \E i \in 1..Len(written) : k \in written[i].keys
       IN  /\ deleted_count' = deleted_count
                                 + (IF k \in DOMAIN store /\ ~fresh THEN 1 ELSE 0)
           /\ store' = IF fresh THEN store ELSE redis_delete(store, k)
           /\ deleted' = deleted \cup {k}
           /\ issued' = Append(issued, k)
    /\ AfterDelete(di)
    /\ UNCHANGED <<exception, apart, dry_run, cursor, keys, key, domain, value, username,
                   repository, total_domains, error_count, keys_to_delete,
                   summary, exit_code, outside, store0, plan, first, visits, verdict,
                   skipped, retained>>

\* one round of "for key in keys_to_delete": redis_client.delete(key) returns
Delete ==
    /\ pc = "delete"
    /\ LET k == keys_to_delete[di]
       IN  /\ deleted_count' = deleted_count + (IF k \in DOMAIN store THEN 1 ELSE 0)
           /\ store' = redis_delete(store, k)
           /\ deleted' = deleted \cup {k}
           /\ issued' = Append(issued, k)
    /\ AfterDelete(di)
    /\ UNCHANGED <<exception, apart, dry_run, cursor, keys, key, domain, value, username,
                   repository, total_domains, error_count, keys_to_delete,
                   summary, exit_code, outside, store0, plan, first, visits, verdict,
                   skipped, retained>>

\* the delete loop without its "try: ... except redis.RedisError": the error
\* leaves delete_domain_mappings and scan_and_clean and ends the run
DeleteFails_uncaught ==
    /\ pc = "delete"
    /\ delete_errors < MaxDeleteErrors
    /\ delete_errors' = delete_errors + 1
    /\ deleted' = deleted \cup {keys_to_delete[di]}
    /\ issued' = Append(issued, keys_to_delete[di])
    /\ exit_code' = <<1>>
    /\ exception' = <<"redis.RedisError">>
    /\ pc' = "done"
    /\ UNCHANGED <<apart, store, dry_run, cursor, keys, idx, locals, counters,
                   summary, unreturned, scans, truth, store0, plan, first,
                   visits, verdict, skipped, evicted, retained>>

\* one round of "for key in keys_to_delete": redis_client.delete(key) raises
\* redis.RedisError, which is printed
DeleteFails ==
    /\ pc = "delete"
    /\ delete_errors < MaxDeleteErrors
    /\ delete_errors' = delete_errors + 1
    /\ deleted' = deleted \cup {keys_to_delete[di]}
    /\ issued' = Append(issued, keys_to_delete[di])
    /\ AfterDelete(di)
    /\ UNCHANGED <<exception, apart, store, dry_run, cursor, keys, key, domain, value, username,
                   repository, total_domains, error_count, keys_to_delete,
                   deleted_count, summary, exit_code, unreturned, scans, truth,
                   store0, plan, first, visits, verdict, skipped, retained>>

\* the while loop without the test of the cursor: it ends after the first page
EndPage_always_breaks ==
    /\ pc = "for"
    /\ idx > Len(keys)
    /\ pc' = "summary"
    /\ UNCHANGED <<exception, apart, store, dry_run, cursor, keys, idx, locals, counters,
                   summary, exit_code, outside, store0, plan, first, history>>

\* the for loop ending one key early
EndPage_one_early ==
    /\ pc = "for"
    /\ idx >= Len(keys)
    /\ pc' = IF cursor = 0 THEN "summary" ELSE "scan"
    /\ UNCHANGED <<exception, apart, store, dry_run, cursor, keys, idx, locals, counters,
                   summary, exit_code, outside, store0, plan, first, history>>

\* the end of "for key in keys": "if cursor == 0: break", else the next SCAN
EndPage ==
    /\ pc = "for"
    /\ idx > Len(keys)
    /\ pc' = IF cursor = 0 THEN "summary" ELSE "scan"
    /\ UNCHANGED <<exception, apart, store, dry_run, cursor, keys, idx, locals, counters,
                   summary, exit_code, outside, store0, plan, first, history>>

----------------------------------------------------------------------------
(* main(): the run and its exit status *)

\* main() with the test "if errors > 0" lost: the status is always 0
Summary_exits_zero ==
    /\ pc = "summary"
    /\ summary' = <<total_domains, cleaned_domains, error_count>>
    /\ exit_code' = <<0>>
    /\ pc' = "done"
    /\ UNCHANGED <<exception, apart, store, dry_run, cursor, keys, idx, locals, counters,
                   outside, store0, plan, first, history>>

\* scan_and_clean returned: print_summary, then sys.exit(2) or sys.exit(0)
Summary ==
    /\ pc = "summary"
    /\ summary' = <<total_domains, cleaned_domains, error_count>>
    /\ exit_code' = IF error_count > 0 THEN <<2>> ELSE <<0>>
    /\ pc' = "done"
    /\ UNCHANGED <<exception, apart, store, dry_run, cursor, keys, idx, locals, counters,
                   outside, store0, plan, first, history>>

\* where main() is inside "try:" (lines 259-267)
InTry == pc \in {"scan", "for", "check", "delete", "summary"}

\* KeyboardInterrupt inside the try block: "Interrupted by user", sys.exit(130)
Interrupt ==
    /\ InTry
    /\ exit_code' = <<130>>
    /\ pc' = "done"
    /\ exception' = <<"KeyboardInterrupt">>
    /\ UNCHANGED <<apart, store, dry_run, cursor, keys, idx, locals, counters,
                   summary, outside, store0, plan, first, history>>

\* redis_client.scan or redis_client.get raises redis.RedisError inside the
\* try block: "except Exception", traceback, sys.exit(1)
StoreRaises ==
    /\ \/ pc = "scan"
       \/ pc = "for" /\ idx <= Len(keys)
    /\ exit_code' = <<1>>
    /\ pc' = "done"
    /\ exception' = <<"redis.RedisError">>
    /\ UNCHANGED <<apart, store, dry_run, cursor, keys, idx, locals, counters,
                   summary, outside, store0, plan, first, history>>

\* a run in which no store call raises and no interrupt arrives
Next ==
    \/ Ping
    \/ PingFails
    \/ Scan
    \/ Get
    \/ Check
    \/ Delete
    \/ EndPage
    \/ Summary

Spec == Init /\ [][Next]_vars

\* the same run, in which every call returns and main() goes on: a step that
\* can be taken is taken
SpecLive == Init /\ [][Next]_vars /\ WF_vars(Next)

\* a run with store errors and interrupts
NextFaults ==
    \/ Next
    \/ DeleteFails
    \/ Interrupt
    \/ StoreRaises

SpecFaults == Init /\ [][NextFaults]_vars

\* a run that an exception of the store or an interrupt can end, with every
\* DELETE returning
NextAborts ==
    \/ Next
    \/ Interrupt
    \/ StoreRaises

SpecAborts == Init /\ [][NextAborts]_vars

----------------------------------------------------------------------------
(* A dry run, then a normal run on the same store with the same SCAN pages   *)
(* and the same Forgejo answers                                              *)

\* the SCAN round trip of the dry run, which is recorded
ScanFirst ==
    /\ pc = "scan"
    /\ first = None
    /\ \E page \in Listings(Candidates) :
         \E last \in BOOLEAN :
            /\ MayReturn(page, last)
            /\ ScanReturns(page, last)
            /\ plan' = Append(plan, [keys |-> page, last |-> last])

\* the Forgejo call of the dry run
CheckFirst == first = None /\ Check

\* the dry run has printed its summary; the normal run starts on the store
\* the dry run leaves, from the top of scan_and_clean
Rerun ==
    /\ pc = "done"
    /\ first = None
    /\ summary # None
    /\ first' = <<[plan |-> plan, verdict |-> verdict, summary |-> summary]>>
    /\ dry_run' = FALSE
    /\ pc' = "scan"
    /\ cursor' = 0
    /\ keys' = << >>
    /\ idx' = 1
    /\ key' = << >>
    /\ domain' = << >>
    /\ value' = None
    /\ username' = << >>
    /\ repository' = << >>
    /\ total_domains' = 0
    /\ cleaned_domains' = 0
    /\ error_count' = 0
    /\ keys_to_delete' = << >>
    /\ di' = 1
    /\ deleted_count' = 0
    /\ summary' = None
    /\ exit_code' = None
    /\ unreturned' = {}
    /\ scans' = 0
    /\ truth' = {}
    /\ store0' = store
    /\ visits' = [k \in ForwardKeys |-> 0]
    /\ verdict' = {}
    /\ deleted' = {}
    /\ issued' = << >>
    /\ skipped' = {}
    /\ evicted' = {}
    /\ retained' = {}
    /\ UNCHANGED <<exception, apart, store, delete_errors, plan>>

\* the SCAN round trip of the normal run: the store returns the page it
\* returned in the dry run, less the keys that are gone, and the same cursor
ScanAgain ==
    /\ pc = "scan"
    /\ first # None
    /\ LET was == first[1].plan[scans + 1]
           Present(k) == k \in DOMAIN store
       IN  ScanReturns(SelectSeq(was.keys, Present), was.last)
    /\ UNCHANGED plan

\* the Forgejo call of the normal run: the answer the dry run got for the key
CheckAgain ==
    /\ pc = "check"
    /\ first # None
    /\ \E e \in first[1].verdict : e[1] = key /\ CheckWith(e[2])

NextPair ==
    \/ Ping
    \/ PingFails
    \/ ScanFirst
    \/ Get
    \/ CheckFirst
    \/ EndPage
    \/ Summary
    \/ Rerun
    \/ ScanAgain
    \/ CheckAgain
    \/ Delete

\* the pair begins with the dry run
InitPair == Init /\ dry_run = TRUE

SpecPair == InitPair /\ [][NextPair]_vars

----------------------------------------------------------------------------
(* A run with the provisioning process writing to the store meanwhile *)

\* the entries the provisioning process writes for the mapping domain d ->
\* value v (v of the form owner:repository): forward, reverse and the six
\* routing entries
Entries(d, v) ==
    LET fwd  == CUSTOM_DOMAIN \o d
        rout == Range(traefik_keys(sanitize_domain_name(d)))
    IN  [k \in {fwd, v} \cup rout |->
            IF k = fwd THEN v ELSE IF k = v THEN d ELSE OPAQUE]

\* the mappings the provisioning process can write again: those the store
\* held when the run began
Mappings0 ==
    {k \in DOMAIN store0 : Matches(k) /\ parse_repo_mapping(store0[k]) # None}

\* the provisioning process (re)creates the mapping of forward key k
Provisions(k) ==
    LET e == Entries(DomainOf(k), store0[k])
    IN  /\ store' = [x \in DOMAIN store \cup DOMAIN e |->
                        IF x \in DOMAIN e THEN e[x] ELSE store[x]]
        /\ written' = Append(written, [pc |-> pc, di |-> di, key |-> key,
                                       keys |-> DOMAIN e])

\* a write of the provisioning process, at any point of the run: nothing in
\* the reaper makes it wait
Provision ==
    /\ InTry
    /\ Len(written) < MaxWrites
    /\ \E k \in Mappings0 : Provisions(k)
    /\ UNCHANGED <<exception, arg, ret, dry_run, pc, cursor, keys, idx, locals,
                   counters, summary, exit_code, outside, store0, plan, first,
                   history>>

NextRace ==
    \/ Next
    \/ Provision

\* the race is with the deletes of a normal run
InitRace == Init /\ dry_run = FALSE

SpecRace == InitRace /\ [][NextRace]_vars

----------------------------------------------------------------------------
(* sanitize_domain_name and parse_repo_mapping, each called alone *)

\* the characters the strs given to the helpers are made of: letters of both
\* cases, a digit, ".", "_", "-", other punctuation and the separator ":"
Chars == {"a", "Z", "7", ".", "_", "-", "!", ":"}

\* the strs of at most n characters
Strings(n) == UNION {[1..len -> Chars] : len \in 0..n}

\* the strs the spec gives as examples
Examples == {
    <<"g", "i", "t", ".", "e", "x", "a", "m", "p", "l", "e", ".", "c", "o", "m">>,
    <<"a", "l", "i", "c", "e", ":", "m", "y", "r", "e", "p", "o">>,
    <<"n", "o", "-", "c", "o", "l", "o", "n", "-", "h", "e", "r", "e">>,
    <<"a", ":", "b", ":", "c">> }

InitPure ==
    /\ arg \in Strings(MaxLen) \cup Examples
    /\ ret = << >>
    /\ pc = "call"
    /\ store = << >>
    /\ dry_run = FALSE
    /\ cursor = 0
    /\ keys = << >>
    /\ idx = 1
    /\ key = << >>
    /\ domain = << >>
    /\ value = None
    /\ username = << >>
    /\ repository = << >>
    /\ total_domains = 0
    /\ cleaned_domains = 0
    /\ error_count = 0
    /\ keys_to_delete = << >>
    /\ di = 1
    /\ deleted_count = 0
    /\ summary = None
    /\ exit_code = None
    /\ exception = None
    /\ unreturned = {}
    /\ scans = 0
    /\ delete_errors = 0
    /\ truth = {}
    /\ store0 = << >>
    /\ visits = [k \in ForwardKeys |-> 0]
    /\ verdict = {}
    /\ deleted = {}
    /\ issued = << >>
    /\ skipped = {}
    /\ evicted = {}
    /\ retained = {}
    /\ plan = << >>
    /\ first = None
    /\ written = << >>

\* the variables of a run of the reaper
run == <<exception, store, dry_run, cursor, keys, idx, locals, counters,
         summary, exit_code, outside, store0, plan, first, history, written>>

\* self.sanitize_domain_name(arg)
Sanitize ==
    /\ pc = "call"
    /\ ret' = <<sanitize_domain_name(arg)>>
    /\ pc' = "sanitized"
    /\ UNCHANGED <<arg, run>>

\* self.sanitize_domain_name of what the first call returned
SanitizeAgain ==
    /\ pc = "sanitized"
    /\ Len(ret) = 1
    /\ ret' = Append(ret, sanitize_domain_name(ret[1]))
    /\ UNCHANGED <<pc, arg, run>>

\* self.parse_repo_mapping(arg)
Parse ==
    /\ pc = "call"
    /\ ret' = <<parse_repo_mapping(arg)>>
    /\ pc' = "parsed"
    /\ UNCHANGED <<arg, run>>

NextPure ==
    \/ Sanitize
    \/ SanitizeAgain
    \/ Parse

SpecPure == InitPure /\ [][NextPure]_vars

----------------------------------------------------------------------------
(* Vocabulary of the properties *)

\* the forward keys the store held when the run began
ForwardKeys0 == {k \in DOMAIN store0 : Matches(k)}

\* the 8 keys of the mapping stored at forward key k when the run began
MappingKeys(k) ==
    LET t == parse_repo_mapping(store0[k])
    IN  Range(KeysToDelete(DomainOf(k), t[1], t[2]))

\* the forward keys the for loop has taken, and those it is through with
\* (skipped, evicted or retained)
Taken == {k \in ForwardKeys : visits[k] > 0}
Through == skipped \cup evicted \cup retained

\* what Forgejo answered for the mappings checked so far
TransportError(o) == o.raised
Exists(o) == ~o.raised /\ o.status_code = 200
NotFound(o) == ~o.raised /\ o.status_code = 404

----------------------------------------------------------------------------
(* C1 *)

\* C1: for every mapping whose Forgejo call failed with a transport error or
\* a timeout, no DELETE is issued on any of the mapping's 8 keys during the
\* run and the mapping is not counted as evicted, in both modes.
\* Violated: the eviction of another mapping issues DELETE on the keys the
\* two mappings share (see C4).
C1_FailSafeRetention ==
    \A e \in verdict :
        TransportError(e[2]) =>
            /\ MappingKeys(e[1]) \cap deleted = {}
            /\ e[1] \notin evicted

----------------------------------------------------------------------------
(* C2 *)

\* C2: a mapping is evicted only on a definitive "not found" (404); every
\* other outcome than 200 and 404 (another status, a transport failure) is
\* treated as existence: the mapping is not evicted, and the outcome is
\* counted in error_count.
\* Violated: has_pages_file returns False for every status other than 200.
C2_EvictOnlyOnNotFound ==
    /\ \A e \in verdict :
          (e[1] \in evicted \/ (e[1] = key /\ pc = "delete")) => NotFound(e[2])
    /\ error_count >= Cardinality({e \in verdict : ~Exists(e[2]) /\ ~NotFound(e[2])})

----------------------------------------------------------------------------
(* C3 *)

\* C3: a mapping whose Forgejo call raised adds exactly 1 to error_count, so
\* the error count printed at the end is the number of mappings skipped for
\* a missing or malformed value plus the number whose Forgejo call raised.
\* Violated: has_pages_file swallows the exception and nothing is counted.
C3_OracleErrorCounted ==
    summary # None =>
        summary[3] = Cardinality(skipped)
                       + Cardinality({e \in verdict : TransportError(e[2])})

----------------------------------------------------------------------------
(* C4 *)

\* C4: whatever the store holds, no key of the 8 keys of a mapping for which
\* Forgejo reported existence (200) is removed from the store by the run.
\* Violated: two mappings can share keys (the same sanitized router name,
\* the same owner:repository, or a reverse key that is another mapping's
\* custom_domain: key), and evicting one removes them from the other.
C4_LiveMappingNeverReaped ==
    \A e \in verdict :
        Exists(e[2]) =>
            \A k \in MappingKeys(e[1]) : k \in DOMAIN store0 => k \in DOMAIN store

----------------------------------------------------------------------------
(* C5 *)

\* sanitize(d) as the claim states it: every character that is not
\* alphanumeric becomes "-"
C5_Token(d) == [i \in 1..Len(d) |-> IF d[i] \in Alnum THEN d[i] ELSE "-"]

\* the 8 keys of the claim for forward key k, in its order; owner:repository
\* is the value stored at k
C5_Expected(k) ==
    <<CUSTOM_DOMAIN \o DomainOf(k), store0[k]>>
      \o [i \in 1..6 |-> ROUTER_PREFIX \o C5_Token(DomainOf(k)) \o ROUTER_SUFFIXES[i]]

\* C5: in normal mode, for a mapping Forgejo reports as not found (404), the
\* DELETE calls issued for it are exactly the 8 derived keys in the stated
\* order, one call per position of the list (while the deletes are under way,
\* a prefix of it), no other DELETE is issued for it, and it adds 1 to
\* cleaned_domains and 0 to error_count.
C5_EvictionKeySet ==
    /\ \A e \in verdict :
          (~dry_run /\ NotFound(e[2])) =>
              IF e[1] = key /\ pc = "delete"
              THEN /\ issued = SubSeq(C5_Expected(key), 1, di - 1)
                   /\ e[1] \notin evicted
              ELSE /\ e[1] = key => issued = C5_Expected(key)
                   /\ e[1] \in evicted
                   /\ e[1] \notin skipped
    /\ cleaned_domains = Cardinality(evicted)
    /\ error_count = Cardinality(skipped)
    /\ deleted \subseteq UNION {Range(C5_Expected(k)) : k \in ForwardKeys0}

\* a mapping was evicted in normal mode and its 8 DELETEs are done
C5_Witness ==
    /\ ~dry_run
    /\ pc = "for"
    /\ key \in evicted
    /\ \E e \in verdict : e[1] = key /\ NotFound(e[2])
    /\ Len(issued) = 8
    /\ domain = <<"a", ".", "b">>

----------------------------------------------------------------------------
(* C6 *)

\* C6: in a dry run no DELETE is issued and the store stays what it was when
\* the run began, whatever it held and whatever Forgejo answers.
C6_DryRunNoMutation ==
    dry_run => /\ store = store0
               /\ deleted = {}
               /\ issued = << >>

\* a dry run that reported an eviction has ended
C6_Witness ==
    /\ dry_run
    /\ pc = "done"
    /\ evicted # {}
    /\ summary # None

----------------------------------------------------------------------------
(* C7 *)

\* C7: a dry run and a normal run on the same store, with the same SCAN
\* pages and the same Forgejo answers, print the same three counters.
\* Violated: the normal run deletes the reverse key of an owner named
\* custom_domain, which is a custom_domain:* key the dry run goes on to scan
\* (see C4); the normal run does not see it, or finds no value for it.
C7_DryRunCountEquivalence ==
    (first # None /\ summary # None) => summary = first[1].summary

----------------------------------------------------------------------------
(* C8 *)

\* a value GET returns that is absent, empty or without a ":"
C8_Unusable(v) == v = None \/ v[1] = << >> \/ \A i \in 1..Len(v[1]) : v[1][i] # ":"

\* C8: the for loop's step for a key whose value is absent, empty or without
\* ":" adds exactly 1 to error_count, calls Forgejo not at all, issues no
\* DELETE, leaves cleaned_domains alone and goes on to the next key; and at
\* no later point of the run is Forgejo asked about such a key or the key
\* counted as evicted.
C8_SkippedMappings ==
    /\ [][ ( /\ pc = "for"
             /\ idx <= Len(keys)
             /\ total_domains' = total_domains + 1
             /\ C8_Unusable(redis_get(store, keys[idx])) )
           => ( /\ error_count' = error_count + 1
                /\ skipped' = skipped \cup {keys[idx]}
                /\ verdict' = verdict
                /\ deleted' = deleted
                /\ store' = store
                /\ cleaned_domains' = cleaned_domains
                /\ idx' = idx + 1
                /\ pc' = "for" ) ]_vars
    /\ [](\A k \in skipped : k \notin evicted /\ ~\E e \in verdict : e[1] = k)

\* a key was skipped because its value was gone when it was fetched
C8_Witness ==
    /\ pc = "for"
    /\ key \in skipped
    /\ value = None
    /\ ~dry_run

----------------------------------------------------------------------------
(* C9 *)

\* C9: at the end of a completed scan total_domains is the number of
\* custom_domain:* keys of the store, and each of them was taken by the for
\* loop exactly once, however the store splits them into pages.
\* Violated in normal mode: an eviction deletes a custom_domain:* key not yet
\* returned by SCAN (the reverse key of an owner named custom_domain, C4).
C9_ScanCompleteness ==
    summary # None =>
        /\ summary[1] = Cardinality(ForwardKeys0)
        /\ \A k \in ForwardKeys0 : visits[k] = 1

----------------------------------------------------------------------------
(* C10 *)

\* C10: when an interrupt arrives during the scan the run stops, the summary
\* is still printed with the counters reached so far, and the status is 130.
\* Violated: the KeyboardInterrupt handler prints "Interrupted by user" and
\* exits; print_summary is not called.
C10_InterruptPrintsSummary ==
    exit_code = <<130>> =>
        summary = <<total_domains, cleaned_domains, error_count>>

----------------------------------------------------------------------------
(* C11 *)

\* C11: every run that gets past the connectivity probe ends with the summary
\* printed, the runs in which SCAN or GET raises included; only the failed
\* probe suppresses it.  (Stated for the runs no interrupt ends: those are
\* C10's.)
\* Violated: an exception of SCAN or GET leaves scan_and_clean, main() prints
\* the traceback and exits; print_summary is not called.
C11_SummaryAlwaysPrinted ==
    (pc = "done" /\ exception \notin {<<"redis.ConnectionError">>, <<"KeyboardInterrupt">>})
        => summary # None

----------------------------------------------------------------------------
(* C12 *)

----------------------------------------------------------------------------
(* C13 *)

\* C13: in normal mode, a DELETE that fails with a store error changes
\* neither error_count nor total_domains and ends nothing: the delete loop
\* goes on to the next of the 8 keys, and after the last one the mapping is
\* counted in cleaned_domains and the scan goes on to the next key; so every
\* mapping counted as evicted had a DELETE attempted on each of its 8 keys,
\* in order, the failed ones included.
C13_DeleteFailuresSwallowed ==
    /\ [][ (pc = "delete" /\ delete_errors' = delete_errors + 1)
           => ( /\ ~dry_run
                /\ error_count' = error_count
                /\ total_domains' = total_domains
                /\ store' = store
                /\ exit_code' = None
                /\ issued' = Append(issued, keys_to_delete[di])
                /\ IF di < Len(keys_to_delete)
                   THEN /\ pc' = "delete"
                        /\ di' = di + 1
                        /\ cleaned_domains' = cleaned_domains
                   ELSE /\ pc' = "for"
                        /\ idx' = idx + 1
                        /\ cleaned_domains' = cleaned_domains + 1
                        /\ evicted' = evicted \cup {key} ) ]_vars
    /\ [](pc = "delete" => issued = SubSeq(keys_to_delete, 1, di - 1))
    /\ []((~dry_run /\ pc = "for" /\ key \in evicted)
            => (Len(issued) = 8 /\ issued = keys_to_delete))

\* the third DELETE of an evicted mapping failed, the other seven removed
\* their keys, the mapping is counted and the page has a key left
C13_Witness ==
    /\ ~dry_run
    /\ pc = "for"
    /\ key \in evicted
    /\ delete_errors = 1
    /\ deleted_count = 7
    /\ issued[3] \in DOMAIN store
    /\ cleaned_domains = 1
    /\ error_count = 0
    /\ idx <= Len(keys)

----------------------------------------------------------------------------
(* C14 *)

\* C14: once the probe has failed the status is 1 and the run is over: no
\* SCAN was or will be answered, no value fetched, Forgejo not asked, no
\* DELETE issued, nothing printed as summary, and the store is what it was.
C14_ProbeFailure ==
    exception = <<"redis.ConnectionError">> =>
        /\ exit_code = <<1>>
        /\ pc = "done"
        /\ scans = 0
        /\ total_domains = 0
        /\ \A k \in ForwardKeys : visits[k] = 0
        /\ verdict = {}
        /\ truth = {}
        /\ deleted = {}
        /\ issued = << >>
        /\ store = store0
        /\ summary = None

\* the probe failed on a store that holds a mapping
C14_Witness ==
    /\ exception = <<"redis.ConnectionError">>
    /\ exit_code = <<1>>
    /\ Cardinality(ForwardKeys0) = 2
    /\ ~dry_run

----------------------------------------------------------------------------
(* C15 *)

\* C15: sanitize(x) is as long as x, is made of alphanumeric characters and
\* "-" only, and has every alphanumeric character of x in its place and case;
\* sanitize(sanitize(x)) = sanitize(x); sanitize("git.example.com") is
\* "git-example-com".
C15_SanitizeIdempotentClosed ==
    /\ pc = "sanitized" =>
          /\ Len(ret[1]) = Len(arg)
          /\ \A i \in 1..Len(arg) :
                /\ ret[1][i] \in Alnum \cup {"-"}
                /\ arg[i] \in Alnum => ret[1][i] = arg[i]
          /\ Len(ret) = 2 => ret[2] = ret[1]
    /\ (pc = "sanitized" /\ arg = <<"g", "i", "t", ".", "e", "x", "a", "m", "p",
                                     "l", "e", ".", "c", "o", "m">>)
          => ret[1] = <<"g", "i", "t", "-", "e", "x", "a", "m", "p",
                        "l", "e", "-", "c", "o", "m">>

\* "Z_!" was sanitized to "Z--", and that once more
C15_Witness ==
    /\ pc = "sanitized"
    /\ arg = <<"Z", "_", "!">>
    /\ ret = << <<"Z", "-", "-">>, <<"Z", "-", "-">> >>

----------------------------------------------------------------------------
(* C16 *)

\* C16: parseMapping(v) is absent exactly when v has no ":"; otherwise it is
\* (owner, repository) with owner the part before the first ":" (so without
\* ":") and repository all that follows it, possibly empty or with further
\* ":", so that owner + ":" + repository = v; "a:b:c" gives ("a", "b:c").
C16_ParseSplitsAtFirstColon ==
    /\ pc = "parsed" =>
          IF \A i \in 1..Len(arg) : arg[i] # ":"
          THEN ret[1] = None
          ELSE /\ Len(ret[1]) = 2
               /\ \A i \in 1..Len(ret[1][1]) : ret[1][1][i] # ":"
               /\ ret[1][1] \o <<":">> \o ret[1][2] = arg
    /\ (pc = "parsed" /\ arg = <<"a", ":", "b", ":", "c">>)
          => ret[1] = << <<"a">>, <<"b", ":", "c">> >>

\* ":a:" was parsed into an empty owner and the repository "a:"
C16_Witness ==
    /\ pc = "parsed"
    /\ arg = <<":", "a", ":">>
    /\ ret = << << << >>, <<"a", ":">> >> >>

----------------------------------------------------------------------------
(* C17 *)

\* C17: nothing makes the provisioning process wait for the run, and every
\* DELETE that returns leaves its key absent whatever was written to it since
\* the Forgejo check: when the writes of the provisioning process all fell
\* between the 404 answer for a mapping and its first DELETE, none of the
\* mapping's 8 keys is left once it is counted as evicted.
C17_RaceWithProvisioning ==
    /\ [][ (pc = "delete" /\ Len(issued') = Len(issued) + 1
                          /\ delete_errors' = delete_errors)
           => keys_to_delete[di] \notin DOMAIN store' ]_vars
    /\ []( ( /\ pc = "for"
             /\ key \in evicted
             /\ written # << >>
             /\ \A i \in 1..Len(written) :
                   /\ written[i].pc = "delete"
                   /\ written[i].di = 1
                   /\ written[i].key = key )
           => Range(keys_to_delete) \cap DOMAIN store = {} )

\* the mapping at hand was recreated after Forgejo answered 404 for it and
\* before its first DELETE; its 8 DELETEs are done, it is counted as evicted
\* and none of the recreated keys is left
C17_Witness ==
    /\ Len(written) = 1
    /\ written[1].pc = "delete"
    /\ written[1].di = 1
    /\ written[1].key = key
    /\ written[1].keys = Range(keys_to_delete)
    /\ \E e \in verdict : e[1] = key /\ NotFound(e[2])
    /\ pc = "for"
    /\ key \in evicted
    /\ Len(issued) = 8
    /\ written[1].keys \cap DOMAIN store = {}

----------------------------------------------------------------------------
(* C18 *)

\* C18 as claimed: whenever a mapping has been discovered by SCAN, every
\* mapping handled before it is fully processed (value fetched, Forgejo
\* asked, every DELETE issued).
\* Violated: SCAN returns a page of keys, and the later keys of the page are
\* discovered before the first of them is fetched.
C18_StrictlySequential ==
    \A i \in 1..Len(keys) : \A j \in 1..Len(keys) :
        i < j => (idx > i /\ keys[i] \in Through)

\* C18 as amended: a value is fetched, and a SCAN issued, only when every
\* key taken before is through (skipped, retained, or evicted with all its
\* DELETEs issued), a SCAN moreover only when every key of the page before
\* was taken; Forgejo is asked about a key only after its value was fetched
\* and only once; a DELETE is issued only for the key at hand after Forgejo
\* answered for it that the file is not there.
C18_SequentialWithinPages ==
    /\ [][ total_domains' # total_domains
             => ( /\ pc = "for"
                  /\ Taken \subseteq Through
                  /\ key' = keys[idx]
                  /\ key' \notin Taken ) ]_vars
    /\ [][ scans' # scans
             => ( /\ pc = "scan"
                  /\ Taken \subseteq Through
                  /\ \A i \in 1..Len(keys) : keys[i] \in Taken ) ]_vars
    /\ [][ verdict' # verdict
             => ( /\ pc = "check"
                  /\ key \in Taken \ Through
                  /\ \A e \in verdict : e[1] # key
                  /\ \E e \in verdict' : e[1] = key /\ verdict' = verdict \cup {e} ) ]_vars
    /\ [][ deleted' # deleted \/ issued' \notin {issued, << >>}
             => ( /\ pc = "delete"
                  /\ key \in Taken \ Through
                  /\ \E e \in verdict : e[1] = key /\ ~has_pages_file(e[2])
                  /\ issued' = Append(issued, keys_to_delete[di]) ) ]_vars

\* the first key of a page of two was evicted with its 8 DELETEs, and only
\* then the value of the second fetched
C18_Witness ==
    /\ ~dry_run
    /\ Len(keys) = 2
    /\ idx = 2
    /\ pc = "check"
    /\ key = keys[2]
    /\ keys[1] \in evicted
    /\ Cardinality(deleted) = 8

----------------------------------------------------------------------------
(* C19 *)

\* C19: the first SCAN is issued with cursor 0 and a completed scan has
\* issued at least one; the for loop leaves a page only when it has taken
\* every key of it, the page that came with cursor 0 included; the while
\* loop ends exactly when the SCAN before returned cursor 0; and, every call
\* returning and the cursor coming back to 0, the run ends, a completed scan
\* with its three counters returned and printed.
C19_ScanTerminates ==
    /\ []((pc = "scan" /\ scans = 0) => cursor = 0)
    /\ [](summary # None => scans >= 1)
    /\ [][ (pc = "for" /\ pc' \in {"scan", "summary"})
             => ( /\ idx > Len(keys)
                  /\ \A i \in 1..Len(keys) : visits[keys[i]] >= 1
                  /\ (pc' = "summary") = (cursor = 0) ) ]_vars
    /\ [][ (pc = "summary" /\ pc' = "done")
             => summary' = <<total_domains, cleaned_domains, error_count>> ]_vars
    /\ <>(pc = "done")
    /\ [](pc = "done" => (summary # None \/ exception # None))

\* a scan of two pages with one key each has completed
C19_Witness ==
    /\ pc = "done"
    /\ scans = 2
    /\ cursor = 0
    /\ summary # None
    /\ summary[1] = 2
    /\ Len(keys) = 1

----------------------------------------------------------------------------
(* C20 *)

\* C20: at every point of a run, each key the for loop has taken has added
\* exactly 1 to total_domains; a key it is through with is exactly one of
\* skipped (1 more in error_count), evicted (1 more in cleaned_domains) and
\* retained (neither), and at most the key at hand is not through yet; so
\* cleaned_domains + error_count <= total_domains, and no step makes a
\* counter smaller or adds to both cleaned_domains and error_count.
C20_CounterAccounting ==
    /\ [](/\ \A k \in ForwardKeys : visits[k] \in {0, 1}
          /\ total_domains = Cardinality(Taken)
          /\ error_count = Cardinality(skipped)
          /\ cleaned_domains = Cardinality(evicted)
          /\ skipped \cap evicted = {}
          /\ skipped \cap retained = {}
          /\ evicted \cap retained = {}
          /\ Through \subseteq Taken
          /\ Taken \ Through \subseteq {key}
          /\ (pc \in {"scan", "for", "summary"} \/ summary # None) => Taken = Through
          /\ cleaned_domains + error_count <= total_domains)
    /\ [][ /\ total_domains' \in {total_domains, total_domains + 1}
           /\ <<cleaned_domains', error_count'>> \in
                 { <<cleaned_domains, error_count>>,
                   <<cleaned_domains + 1, error_count>>,
                   <<cleaned_domains, error_count + 1>> } ]_vars

\* the first key of the page was skipped, the second is being evicted
C20_Witness ==
    /\ pc = "delete"
    /\ di = 4
    /\ total_domains = 2
    /\ error_count = 1
    /\ cleaned_domains = 0
    /\ skipped = {keys[1]}
    /\ key = keys[2]

=============================================================================
